---- MODULE Spec2Model ----
(***************************************************************************)
(* A model of the security-decision core of the RBAC / cell-level security *)
(* demo: the clearance hierarchy, the document-level admit/deny decision   *)
(* of get_document, the cell-level masking pass, the search filter builder *)
(* and the two audit sinks (the print helpers of search.py and log_event   *)
(* of audit.py).                                                           *)
(*                                                                         *)
(* Python values are encoded as follows.                                   *)
(*   dict        a sequence of <<key, value>> pairs with distinct keys, in *)
(*               insertion order (Python dicts keep insertion order)       *)
(*   list        a sequence                                                *)
(*   None        the string None; a list-typed attribute that is None is   *)
(*               the one-element sequence NoneList                         *)
(*   exception   a store reply of kind "raise" carrying the exception text, *)
(*               and the flag raised in what an audit call returns         *)
(***************************************************************************)
EXTENDS Integers, Sequences, FiniteSets, TLC

VARIABLES
    pc,         \* "idle" | "received" | "responded": position of the request
    input,      \* the request being handled and the store's reply to it
    output,     \* the HTTP response of the last handled request
    effects,    \* what the last handler did besides responding
    stdout,     \* lines printed by the audit helpers of search.py
    audit_log   \* rows of the audit_log table written by audit.log_event

vars == <<pc, input, output, effects, stdout, audit_log>>

(***************************************************************************)
(* Python values                                                           *)
(***************************************************************************)
None == "<None>"
NoneList == <<None>>
REDACTED == "[REDACTED]"

Range(s) == {s[i] : i \in DOMAIN s}

\* dict.keys(), as a set
Keys(d) == {d[i][1] : i \in DOMAIN d}

\* key in dict
Has(d, k) == k \in Keys(d)

\* dict.get(key, default)
Get(d, k, default) ==
    IF Has(d, k) THEN d[CHOOSE i \in DOMAIN d : d[i][1] = k][2] ELSE default

\* dict[key] = value on an existing key keeps the key's position; a new key
\* goes last
Put(d, k, v) ==
    IF Has(d, k)
    THEN [i \in DOMAIN d |-> IF d[i][1] = k THEN <<k, v>> ELSE d[i]]
    ELSE Append(d, <<k, v>>)

\* list(dict.keys()), in insertion order
KeySeq(d) == [i \in DOMAIN d |-> d[i][1]]

\* `x or []` for a list-typed attribute
OrEmptyList(x) == IF x = NoneList THEN <<>> ELSE x

\* str.upper() on the strings of the model
Upper(s) ==
    CASE s = "secret" -> "SECRET"
      [] s = "Top_Secret" -> "TOP_SECRET"
      [] s = "confidential" -> "CONFIDENTIAL"
      [] s = "bogus" -> "BOGUS"
      [] OTHER -> s

(***************************************************************************)
(* Classification levels (search.py:24-37)                                 *)
(***************************************************************************)
\* a bug: two members of the enum share a value
ClearanceLevel_Tied ==
    [UNCLASSIFIED |-> 0, CONFIDENTIAL |-> 1, SECRET |-> 2, TOP_SECRET |-> 2]

ClearanceLevel ==
    [UNCLASSIFIED |-> 0, CONFIDENTIAL |-> 1, SECRET |-> 2, TOP_SECRET |-> 3]

\* the members of the IntEnum in definition order
LevelNames == <<"UNCLASSIFIED", "CONFIDENTIAL", "SECRET", "TOP_SECRET">>

CLEARANCE_MAP ==
    [UNCLASSIFIED |-> ClearanceLevel.UNCLASSIFIED,
     CONFIDENTIAL |-> ClearanceLevel.CONFIDENTIAL,
     SECRET |-> ClearanceLevel.SECRET,
     TOP_SECRET |-> ClearanceLevel.TOP_SECRET]

\* CLEARANCE_MAP.get(key, ClearanceLevel.UNCLASSIFIED)
CLEARANCE_MAP_get(key) ==
    IF key \in DOMAIN CLEARANCE_MAP
    THEN CLEARANCE_MAP[key]
    ELSE ClearanceLevel.UNCLASSIFIED

\* a bug: the clearance string is looked up as it is written
user_clearance_of_CaseSensitive(user) ==
    CLEARANCE_MAP_get(
        IF user.clearance_level # None /\ user.clearance_level # ""
        THEN user.clearance_level
        ELSE "UNCLASSIFIED")

\* CLEARANCE_MAP.get(user.clearance_level.upper() if user.clearance_level
\*                   else "UNCLASSIFIED", ClearanceLevel.UNCLASSIFIED)
user_clearance_of(user) ==
    CLEARANCE_MAP_get(
        IF user.clearance_level # None /\ user.clearance_level # ""
        THEN Upper(user.clearance_level)
        ELSE "UNCLASSIFIED")

\* set(user.compartments or [])
user_compartments_of(user) == Range(OrEmptyList(user.compartments))

(***************************************************************************)
(* Filter predicate builder (search.py:80-167)                             *)
(***************************************************************************)
\* a bug: the principal's own level is left out
allowed_classifications_Below(user_clearance) ==
    SelectSeq(LevelNames, LAMBDA name : ClearanceLevel[name] < user_clearance)

\* [level.name for level in ClearanceLevel if level <= user_clearance]
allowed_classifications(user_clearance) ==
    SelectSeq(LevelNames, LAMBDA name : ClearanceLevel[name] <= user_clearance)

\* the classification clause appended at search.py:108-112
classification_filter(user) ==
    [type |-> "terms",
     field |-> "classification.keyword",
     values |-> allowed_classifications(user_clearance_of(user))]

\* the two clauses every principal gets (search.py:124-139)
base_should ==
    <<[type |-> "must_not_exists", field |-> "compartments"],
      [type |-> "term", field |-> "compartments", value |-> <<>>]>>

\* the script clause appended when the principal holds compartments
\* (search.py:145-163)
script_clause(user_compartments) ==
    [type |-> "script",
     source |-> "all doc compartments in params.userCompartments",
     userCompartments |-> user_compartments]

compartment_filter(user) ==
    LET user_compartments == OrEmptyList(user.compartments)
    IN  [type |-> "bool_should",
         should |-> IF user_compartments # <<>>
                    THEN Append(base_should, script_clause(user_compartments))
                    ELSE base_should,
         minimum_should_match |-> 1]

build_security_filter(user) ==
    <<classification_filter(user), compartment_filter(user)>>

(***************************************************************************)
(* What the filter clauses select, as the comments of search.py:114-157    *)
(* and the script source state it; the store evaluates them.  A field that *)
(* is absent from a document has no values.                                *)
(***************************************************************************)
\* the values a document holds for a filter field
FieldValues(source, field) ==
    CASE field = "classification.keyword" ->
            IF Has(source, "classification")
            THEN {Get(source, "classification", None)}
            ELSE {}
      [] field = "compartments" -> Range(Get(source, "compartments", <<>>))
      [] OTHER -> {}

\* the Painless script of search.py:150-157
ScriptAccepts(doc_compartments, userCompartments) ==
    IF Cardinality(doc_compartments) = 0
    THEN TRUE
    ELSE \A comp \in doc_compartments : comp \in Range(userCompartments)

LeafMatches(clause, source) ==
    CASE clause.type = "terms" ->
            FieldValues(source, clause.field) \cap Range(clause.values) # {}
      [] clause.type = "must_not_exists" ->
            FieldValues(source, clause.field) = {}
      [] clause.type = "term" ->
            \* "Option 2: Document compartments is empty array"
            /\ Has(source, clause.field)
            /\ Get(source, clause.field, <<>>) = clause.value
      [] clause.type = "script" ->
            ScriptAccepts(FieldValues(source, "compartments"),
                          clause.userCompartments)
      [] OTHER -> FALSE

ClauseMatches(clause, source) ==
    IF clause.type = "bool_should"
    THEN Cardinality({i \in DOMAIN clause.should :
                        LeafMatches(clause.should[i], source)})
            >= clause.minimum_should_match
    ELSE LeafMatches(clause, source)

\* "filter": security_filters inside the bool query (search.py:285-291): a
\* document is a hit only if every filter clause matches it
FilterMatches(filters, source) ==
    \A i \in DOMAIN filters : ClauseMatches(filters[i], source)

(***************************************************************************)
(* Cell masking engine (search.py:170-221)                                 *)
(***************************************************************************)
\* a bug: holding any one of the field's compartments is enough
should_mask_AnyCompartment(field_classification, field_compartments, user_clearance, user_compartments) ==
    IF field_classification > user_clearance
    THEN TRUE
    ELSE IF field_compartments # {}
            /\ field_compartments \cap user_compartments = {}
         THEN TRUE
         ELSE FALSE

\* search.py:209-214
should_mask(field_classification, field_compartments, user_clearance, user_compartments) ==
    IF field_classification > user_clearance
    THEN TRUE
    ELSE IF field_compartments # {}
            /\ ~(field_compartments \subseteq user_compartments)
         THEN TRUE
         ELSE FALSE

\* search.py:200-203
field_classification_of(security) ==
    CLEARANCE_MAP_get(Get(security, "classification", "UNCLASSIFIED"))

\* search.py:206
field_compartments_of(security) == Range(Get(security, "compartments", <<>>))

\* a bug: the masked field is dropped from the document
mask_field_Omit(st, field_name) ==
    [source |-> SelectSeq(st.source, LAMBDA pair : pair[1] # field_name),
     masked_fields |-> Append(st.masked_fields, field_name)]

\* a bug: the marker is written in front of what the field holds, so a
\* field that is masked already is marked a second time
mask_field_Prepend(st, field_name) ==
    [source |-> Put(st.source, field_name,
                    IF Get(st.source, field_name, None) = REDACTED
                    THEN "[REDACTED][REDACTED]" ELSE REDACTED),
     masked_fields |-> Append(st.masked_fields, field_name)]

\* search.py:217-218
mask_field(st, field_name) ==
    [source |-> Put(st.source, field_name, REDACTED),
     masked_fields |-> Append(st.masked_fields, field_name)]

\* the loop of search.py:198-218 from item i on; st = [source, masked_fields]
RECURSIVE MaskLoop(_, _, _, _)
MaskLoop(field_security, i, user, st) ==
    IF i > Len(field_security)
    THEN st
    ELSE LET field_name == field_security[i][1]
             security == field_security[i][2]
             mask == should_mask(field_classification_of(security),
                                 field_compartments_of(security),
                                 user_clearance_of(user),
                                 user_compartments_of(user))
         IN  MaskLoop(field_security, i + 1, user,
                 IF mask /\ Has(st.source, field_name)
                 THEN mask_field(st, field_name)
                 ELSE st)

\* Returns the tuple of the function and, as doc_after, the caller's doc
\* object after the call: doc.copy() is shallow, so `source` is the caller's
\* own _source dict and line 217 writes into it.
apply_cell_level_security(doc, user) ==
    LET field_security == Get(Get(doc, "_source", <<>>), "field_security", <<>>)
        st == MaskLoop(field_security, 1, user,
                       [source |-> Get(doc, "_source", <<>>),
                        masked_fields |-> <<>>])
    IN  [filtered_doc |-> Put(doc, "_source", st.source),
         masked_fields |-> st.masked_fields,
         doc_after |-> IF Has(doc, "_source")
                       THEN Put(doc, "_source", st.source)
                       ELSE doc]

(***************************************************************************)
(* Audit helpers of search.py (search.py:483-502): each prints one line    *)
(***************************************************************************)
log_search_audit(user, request, total) ==
    [tag |-> "[AUDIT] Search",
     user |-> user.username,
     query |-> request.query,
     results |-> total,
     clearance |-> user.clearance_level,
     compartments |-> user.compartments]

log_document_access(user, document_id) ==
    [tag |-> "[AUDIT] Document access",
     user |-> user.username,
     doc_id |-> document_id,
     clearance |-> user.clearance_level]

log_access_denied(user, document_id, reason) ==
    [tag |-> "[AUDIT] Access DENIED",
     user |-> user.username,
     doc_id |-> document_id,
     reason |-> reason,
     clearance |-> user.clearance_level]

(***************************************************************************)
(* get_document (search.py:363-430)                                        *)
(***************************************************************************)
\* str(e) of what client.get and client.search raise, as the client library
\* formats its errors: ClassName(status, error, cause). A GET of an id the
\* index does not hold is answered 404 with the body {"found": false}
MissingDocumentError ==
    "NotFoundError(404, '{\"_index\":\"secure-documents\",\"_id\":\"doc-1\",\"found\":false}')"

MissingIndexError ==
    "NotFoundError(404, 'index_not_found_exception', 'no such index [secure-documents]', secure-documents, index_or_alias)"

UnreachableError == "ConnectionError(N/A, 'Connection refused')"

\* "not_found" in str(e).lower() (search.py:382), on the texts above
MentionsNotFound(message) ==
    message \in {MissingIndexError}

\* a bug: a document at the principal's own level is refused
ClearanceDenied_AtOrAbove(doc_classification, user_clearance) ==
    doc_classification >= user_clearance

\* search.py:400
ClearanceDenied(doc_classification, user_clearance) ==
    doc_classification > user_clearance

\* search.py:411
CompartmentsDenied(doc_compartments, user_compartments) ==
    doc_compartments # {} /\ ~(doc_compartments \subseteq user_compartments)

\* a bug: the denial echoes the document's content
ClearanceDenial_Leak(source) ==
    [status |-> 403,
     detail |-> <<"Access denied: Document requires ",
                  Get(source, "classification", None), " clearance",
                  Get(source, "content", None)>>]

\* search.py:402-405; source.get('classification') is None when absent
ClearanceDenial(source) ==
    [status |-> 403,
     detail |-> <<"Access denied: Document requires ",
                  Get(source, "classification", None), " clearance">>]

\* search.py:414-417
CompartmentDenial(source) ==
    [status |-> 403,
     detail |-> <<"Access denied: You lack required compartment access">>]

\* search.py:425-430
Granted(document_id, filtered_response, masked_fields) ==
    [status |-> 200,
     body |-> [id |-> document_id,
               document |-> Get(filtered_response, "_source", <<>>),
               masked_fields |-> masked_fields,
               access_granted |-> TRUE]]

\* a bug: a grant is remembered; once a read has been granted, later
\* requests are granted without a new evaluation
access_decision_Remembered(doc_classification, user_clearance, doc_compartments, user_compartments) ==
    IF \E i \in DOMAIN stdout : stdout[i].tag = "[AUDIT] Document access"
    THEN "granted"
    ELSE IF ClearanceDenied(doc_classification, user_clearance)
    THEN "insufficient_clearance"
    ELSE IF CompartmentsDenied(doc_compartments, user_compartments)
    THEN "missing_compartments"
    ELSE "granted"

\* a bug: the compartment check runs before the clearance check
access_decision_CompartmentsFirst(doc_classification, user_clearance, doc_compartments, user_compartments) ==
    IF CompartmentsDenied(doc_compartments, user_compartments)
    THEN "missing_compartments"
    ELSE IF ClearanceDenied(doc_classification, user_clearance)
    THEN "insufficient_clearance"
    ELSE "granted"

\* the order of the two checks (search.py:399-419): which branch the
\* handler takes
access_decision(doc_classification, user_clearance, doc_compartments, user_compartments) ==
    IF ClearanceDenied(doc_classification, user_clearance)
    THEN "insufficient_clearance"
    ELSE IF CompartmentsDenied(doc_compartments, user_compartments)
    THEN "missing_compartments"
    ELSE "granted"

\* a bug: the whole compartment list of the document is reported
missing_compartments_All(doc_compartments, user_compartments) ==
    doc_compartments

\* search.py:412
missing_compartments(doc_compartments, user_compartments) ==
    doc_compartments \ user_compartments

\* what print(...) of an audit helper can do (search.py:485-502): write the
\* line; raise OSError on a closed stdout; or return with the line in the
\* buffer of a block-buffered stdout that is never flushed
Sinks == {"ok", "raises", "lost"}

\* the answer of the framework to an exception no handler catches
InternalServerError == [status |-> 500, detail |-> <<"Internal Server Error">>]

\* a bug: the response is raised before the audit helper is awaited
audit_then_RespondFirst(sink, line, response, before) ==
    [response |-> response, printed |-> <<>>,
     steps |-> before \o <<"respond">>]

\* `await log_...(...)` and the raise or return that follows it
\* (search.py:401-405, 413-417, 423-430, 340-360): the helper is awaited
\* first and nothing catches what it raises
audit_then(sink, line, response, before) ==
    CASE sink = "ok" ->
            [response |-> response, printed |-> <<line>>,
             steps |-> before \o <<"audit", "respond">>]
      [] sink = "lost" ->
            [response |-> response, printed |-> <<>>,
             steps |-> before \o <<"audit", "respond">>]
      [] sink = "raises" ->
            [response |-> InternalServerError, printed |-> <<>>,
             steps |-> before \o <<"audit raised", "respond">>]

\* The handler: the response, the lines it printed, the rows it wrote to the
\* audit_log table, its steps in order, and the fetched document object as
\* the handler leaves it.
get_document(document_id, user, reply, sink) ==
    IF reply.kind = "raise"
    THEN [response |->
            IF MentionsNotFound(reply.message)
            THEN [status |-> 404, detail |-> <<"Document not found">>]
            ELSE [status |-> 503,
                  detail |-> <<"Search service error: ", reply.message>>],
          printed |-> <<>>, rows |-> <<>>,
          steps |-> <<"store.get", "respond">>,
          fetched |-> <<>>]
    ELSE
    LET response == reply.doc
        source == Get(response, "_source", <<>>)
        doc_classification ==
            CLEARANCE_MAP_get(Get(source, "classification", "UNCLASSIFIED"))
        user_clearance == user_clearance_of(user)
        doc_compartments == Range(Get(source, "compartments", <<>>))
        user_compartments == user_compartments_of(user)
        missing == missing_compartments(doc_compartments, user_compartments)
        cell == apply_cell_level_security(response, user)
        decision == access_decision(doc_classification, user_clearance,
                                    doc_compartments, user_compartments)
    IN  CASE decision = "insufficient_clearance" ->
                audit_then(sink,
                           log_access_denied(user, document_id,
                                             <<"insufficient_clearance">>),
                           ClearanceDenial(source),
                           <<"store.get", "evaluate">>)
                @@ [rows |-> <<>>, fetched |-> response]
          [] decision = "missing_compartments" ->
                audit_then(sink,
                           log_access_denied(user, document_id,
                                             <<"missing_compartments",
                                               missing>>),
                           CompartmentDenial(source),
                           <<"store.get", "evaluate">>)
                @@ [rows |-> <<>>, fetched |-> response]
          [] decision = "granted" ->
                audit_then(sink,
                           log_document_access(user, document_id),
                           Granted(document_id, cell.filtered_doc,
                                   cell.masked_fields),
                           <<"store.get", "evaluate", "mask">>)
                @@ [rows |-> <<>>, fetched |-> cell.doc_after]

(***************************************************************************)
(* search_documents (search.py:231-360)                                    *)
(***************************************************************************)
\* search.py:324-335
DocumentHit(hit, filtered_hit, masked_fields) ==
    LET source == Get(filtered_hit, "_source", <<>>)
    IN  [id |-> Get(hit, "_id", None),
         title |-> Get(source, "title", "Untitled"),
         author |-> Get(source, "author", None),
         classification |-> Get(source, "classification", "UNCLASSIFIED"),
         compartments |-> Get(source, "compartments", <<>>),
         masked_fields |-> masked_fields]

\* the loop of search.py:319-335
search_results(hits, user) ==
    [i \in DOMAIN hits |->
        LET cell == apply_cell_level_security(hits[i], user)
        IN  DocumentHit(hits[i], cell.filtered_doc, cell.masked_fields)]

search_documents(request, user, reply, sink) ==
    IF reply.kind = "raise"
    THEN [response |-> [status |-> 503,
                        detail |-> <<"Search service unavailable: ",
                                     reply.message>>],
          printed |-> <<>>, rows |-> <<>>,
          steps |-> <<"store.search", "respond">>,
          query_filter |-> build_security_filter(user)]
    ELSE audit_then(sink,
            log_search_audit(user, request, reply.total),
            [status |-> 200,
             body |-> [total |-> reply.total,
                       page |-> request.page,
                       page_size |-> request.page_size,
                       total_pages |-> (reply.total + request.page_size - 1)
                                           \div request.page_size,
                       results |-> search_results(reply.hits, user),
                       user_clearance |->
                           IF user.clearance_level \in {None, ""}
                           THEN "UNCLASSIFIED" ELSE user.clearance_level,
                       user_compartments |-> OrEmptyList(user.compartments)]],
            <<"store.search", "mask">>)
         @@ [rows |-> <<>>, query_filter |-> build_security_filter(user)]

(***************************************************************************)
(* list_categories (search.py:433-480)                                     *)
(***************************************************************************)
list_categories(user, reply) ==
    IF reply.kind = "raise"
    THEN [response |-> [status |-> 503,
                        detail |-> <<"Search service error: ",
                                     reply.message>>],
          printed |-> <<>>, rows |-> <<>>,
          steps |-> <<"store.search", "respond">>,
          query_filter |-> build_security_filter(user)]
    ELSE [response |->
            [status |-> 200,
             body |-> [categories |->
                           [i \in DOMAIN reply.buckets |->
                               [name |-> reply.buckets[i].key,
                                count |-> reply.buckets[i].doc_count]],
                       user_clearance |-> user.clearance_level]],
          printed |-> <<>>, rows |-> <<>>,
          steps |-> <<"store.search", "respond">>,
          query_filter |-> build_security_filter(user)]

(***************************************************************************)
(* Audit recorder (audit.py)                                               *)
(***************************************************************************)
\* `user` is None
NoUser == [none |-> TRUE]

\* `request` is None
NoRequest == [none |-> TRUE]

\* `details` is None
NoDetails == [none |-> TRUE]

\* the details dict of the model's CRUD calls
CrudDetails == <<<<"reason", "import">>>>

\* json.dumps (audit.py:87), on the dicts of the model
json_dumps(details) ==
    CASE details = <<>> -> "{}"
      [] details = CrudDetails -> "{\"reason\": \"import\"}"

\* the defaults of log_event's keyword parameters (audit.py:20-34)
log_event_defaults ==
    [resource_id |-> None, record_title |-> None, field_name |-> None,
     classification_required |-> None, compartments_required |-> NoneList,
     was_allowed |-> TRUE, denial_reason |-> None,
     old_value |-> None, new_value |-> None,
     ip_address |-> None, user_agent |-> None,
     request_path |-> None, request_method |-> None,
     session_id |-> None, details |-> NoDetails]

\* the parameter dict of db.execute (audit.py:55-88), without the timestamp
audit_row(user, kw) ==
    [uid |-> None,
     uname |-> IF "none" \in DOMAIN user THEN "anonymous" ELSE user.username,
     org |-> IF "none" \in DOMAIN user THEN "Unknown" ELSE user.organization,
     clearance |-> IF "none" \in DOMAIN user THEN None
                   ELSE user.clearance_level,
     action |-> kw.action,
     rtype |-> kw.resource_type,
     rid |-> kw.resource_id,
     rtitle |-> kw.record_title,
     fname |-> kw.field_name,
     class_req |-> kw.classification_required,
     comp_req |-> IF kw.compartments_required \in {NoneList, <<>>}
                  THEN NoneList ELSE kw.compartments_required,
     allowed |-> kw.was_allowed,
     denial |-> kw.denial_reason,
     old_val |-> kw.old_value,
     new_val |-> kw.new_value,
     ip |-> kw.ip_address,
     ua |-> kw.user_agent,
     path |-> kw.request_path,
     method |-> kw.request_method,
     session |-> kw.session_id,
     details |-> IF "none" \in DOMAIN kw.details \/ kw.details.dict = <<>>
                 THEN None ELSE json_dumps(kw.details.dict)]

\* a bug: the INSERT is executed twice
log_event_Twice(db, user, given) ==
    LET kw == given @@ log_event_defaults
    IN  IF db = "ok"
        THEN [rows |-> <<audit_row(user, kw), audit_row(user, kw)>>,
              raised |-> FALSE]
        ELSE [rows |-> <<>>, raised |-> TRUE]

\* log_event (audit.py:15-89): one INSERT and a commit; when the database is
\* unreachable db.execute raises and no row is stored
log_event(db, user, given) ==
    LET kw == given @@ log_event_defaults
    IN  IF db = "ok"
        THEN [rows |-> <<audit_row(user, kw)>>, raised |-> FALSE]
        ELSE [rows |-> <<>>, raised |-> TRUE]

\* audit.py:102-110, the same in every helper
provenance(request) ==
    IF "none" \in DOMAIN request
    THEN [ip_address |-> None, user_agent |-> None,
          request_path |-> None, request_method |-> None]
    ELSE [ip_address |-> request.client_host,
          user_agent |-> request.user_agent,
          request_path |-> request.path,
          request_method |-> request.method]

\* a bug: a denied access is recorded under the action of a read
log_record_access_AlwaysRead(db, user, record_id, record_title, was_allowed, denial_reason, request) ==
    log_event(db, user,
        [action |-> "READ_RECORD",
         resource_type |-> "record",
         resource_id |-> record_id,
         record_title |-> record_title,
         was_allowed |-> was_allowed,
         denial_reason |-> denial_reason] @@ provenance(request))

\* log_record_access (audit.py:92-125)
log_record_access(db, user, record_id, record_title, was_allowed, denial_reason, request) ==
    log_event(db, user,
        [action |-> IF was_allowed THEN "READ_RECORD" ELSE "ACCESS_DENIED",
         resource_type |-> "record",
         resource_id |-> record_id,
         record_title |-> record_title,
         was_allowed |-> was_allowed,
         denial_reason |-> denial_reason] @@ provenance(request))

\* a bug: the entries are taken from the end of the list
batch_entry_Reversed(cell_access_log, i) ==
    cell_access_log[Len(cell_access_log) - i + 1]

\* the i-th entry `for entry in cell_access_log` visits (audit.py:147)
batch_entry(cell_access_log, i) == cell_access_log[i]

\* the log_event call of one iteration (audit.py:148-164)
batch_log_event(db, user, record_id, record_title, entry, request) ==
    log_event(db, user,
        [action |-> IF entry.was_allowed THEN "READ_CELL"
                    ELSE "CELL_ACCESS_DENIED",
         resource_type |-> "cell",
         resource_id |-> record_id,
         record_title |-> record_title,
         field_name |-> entry.field_name,
         classification_required |-> entry.classification_required,
         compartments_required |-> entry.compartments_required,
         was_allowed |-> entry.was_allowed,
         denial_reason |-> IF "denial_reason" \in DOMAIN entry
                           THEN entry.denial_reason ELSE None]
        @@ provenance(request))

\* the loop of audit.py:147-164: one log_event, with its own commit, per
\* entry; db[i] is the state of the database at the i-th write, and an
\* exception of log_event ends the loop
RECURSIVE BatchLoop(_, _, _, _, _, _, _, _)
BatchLoop(db, user, record_id, record_title, cell_access_log, request, i, rows) ==
    IF i > Len(cell_access_log)
    THEN [rows |-> rows, raised |-> FALSE]
    ELSE LET r == batch_log_event(db[i], user, record_id, record_title,
                                  batch_entry(cell_access_log, i), request)
         IN  IF r.raised
             THEN [rows |-> rows, raised |-> TRUE]
             ELSE BatchLoop(db, user, record_id, record_title,
                            cell_access_log, request, i + 1, rows \o r.rows)

\* log_cell_access_batch (audit.py:128-164)
log_cell_access_batch(db, user, record_id, record_title, cell_access_log, request) ==
    BatchLoop(db, user, record_id, record_title, cell_access_log, request,
              1, <<>>)

\* a bug: the before and after values change places
log_crud_event_Swapped(db, user, action, resource_type, resource_id, record_title, field_name, old_value, new_value, details, request) ==
    log_event(db, user,
        [action |-> action,
         resource_type |-> resource_type,
         resource_id |-> resource_id,
         record_title |-> record_title,
         field_name |-> field_name,
         was_allowed |-> TRUE,
         old_value |-> new_value,
         new_value |-> old_value,
         details |-> details] @@ provenance(request))

\* log_crud_event (audit.py:167-207)
log_crud_event(db, user, action, resource_type, resource_id, record_title, field_name, old_value, new_value, details, request) ==
    log_event(db, user,
        [action |-> action,
         resource_type |-> resource_type,
         resource_id |-> resource_id,
         record_title |-> record_title,
         field_name |-> field_name,
         was_allowed |-> TRUE,
         old_value |-> old_value,
         new_value |-> new_value,
         details |-> details] @@ provenance(request))

(***************************************************************************)
(* Inputs                                                                  *)
(***************************************************************************)
\* most audit lines and rows the two sinks hold together
MaxLog == 2
\* most hits the store returns for one search
MaxHits == 2

CompartmentLists ==
    {<<>>, <<"PROJECT_ALPHA">>, <<"OPERATION_DELTA">>,
     <<"PROJECT_ALPHA", "OPERATION_DELTA">>}

ClearanceInputs ==
    {None, "", "UNCLASSIFIED", "CONFIDENTIAL", "SECRET", "TOP_SECRET",
     "secret", "bogus"}

\* a CurrentUser as the authentication dependency hands it to a handler
User(clearance_level, compartments) ==
    [username |-> "alice", organization |-> "agency-alpha",
     clearance_level |-> clearance_level, compartments |-> compartments]

Users ==
    {User(cl, c) : cl \in ClearanceInputs,
                   c \in CompartmentLists \cup {NoneList}}

\* a key that may be left out of a dict: no pair, or one pair per value
Optional(key, values) == {<<>>} \cup {<<<<key, v>>>> : v \in values}

DataFields == {"title", "content", "author"}

TitleFirst ==
    <<<<"title", "Title text">>, <<"content", "Content text">>,
      <<"author", "Author name">>>>

AuthorFirst ==
    <<<<"author", "Author name">>, <<"content", "Content text">>,
      <<"title", "Title text">>>>

\* a search hit: "_source": {"excludes": ["content"]} (search.py:298-300)
WithoutContent == <<<<"title", "Title text">>, <<"author", "Author name">>>>

FieldOrders == {TitleFirst, AuthorFirst, WithoutContent}

ClassificationOptions ==
    Optional("classification",
             {"UNCLASSIFIED", "CONFIDENTIAL", "SECRET", "TOP_SECRET",
              "secret", "bogus"})

CompartmentOptions == Optional("compartments", CompartmentLists)

\* the per-field security dicts
Securities ==
    {c \o k :
        c \in Optional("classification",
                       {"CONFIDENTIAL", "TOP_SECRET", "secret"}),
        k \in Optional("compartments",
                       {<<>>, <<"PROJECT_ALPHA">>,
                        <<"PROJECT_ALPHA", "OPERATION_DELTA">>})}

\* every field_security dict over the secured fields, in either order
FieldSecurities ==
    {<<>>}
    \cup {<<<<f, s>>>> : f \in {"content", "author"}, s \in Securities}
    \cup {<<<<f, s>>, <<g, t>>>> :
            f \in {"content"}, g \in {"author"},
            s \in Securities, t \in Securities}
    \cup {<<<<g, t>>, <<f, s>>>> :
            f \in {"content"}, g \in {"author"},
            s \in Securities, t \in Securities}

\* the field_security dicts of the sample documents
\* (setup_opensearch.py:221-226, 304-313)
SampleFieldSecurities ==
    {<<<<"content", <<<<"classification", "SECRET">>,
                      <<"compartments", <<"PROJECT_ALPHA">>>>>>>>>>,
     <<<<"content", <<<<"classification", "TOP_SECRET">>,
                      <<"compartments", <<"OPERATION_DELTA">>>>>>>>,
       <<"author", <<<<"classification", "SECRET">>,
                     <<"compartments", <<"OPERATION_DELTA">>>>>>>>>>}

\* a stored document as client.get returns it
Doc(id, source) == <<<<"_id", id>>, <<"_source", source>>>>

\* documents that vary in their document-level attributes
Documents ==
    {Doc("doc-1", TitleFirst \o c \o k \o fs) :
        c \in ClassificationOptions,
        k \in CompartmentOptions,
        fs \in Optional("field_security", SampleFieldSecurities)}

\* documents that vary in their field-level attributes
MaskDocuments ==
    {Doc("doc-1", o \o <<<<"classification", "UNCLASSIFIED">>,
                         <<"compartments", <<>>>>,
                         <<"field_security", fs>>>>) :
        o \in FieldOrders, fs \in FieldSecurities}

\* what a call of the store can raise
StoreErrors == {MissingIndexError, UnreachableError}

\* the hits of a search: documents without their content
Hit(id, classification, compartments, field_security) ==
    Doc(id, WithoutContent
            \o <<<<"classification", classification>>,
                 <<"compartments", compartments>>>>
            \o field_security)

HitPool ==
    {Hit("doc-1", "UNCLASSIFIED", <<>>, <<>>),
     Hit("doc-7", "SECRET", <<"PROJECT_ALPHA">>,
         <<<<"field_security",
             <<<<"author", <<<<"classification", "SECRET">>,
                           <<"compartments", <<"OPERATION_DELTA">>>>>>>>>>>>>>),
     Hit("doc-12", "TOP_SECRET", <<"OPERATION_DELTA">>, <<>>)}

\* lists of at most n distinct members of S
RECURSIVE ListsOf(_, _)
ListsOf(S, n) ==
    IF n = 0
    THEN {<<>>}
    ELSE LET shorter == ListsOf(S, n - 1)
         IN  shorter \cup UNION {{Append(l, x) : x \in S \ Range(l)} :
                                    l \in shorter}

\* what client.search returns: any list of stored documents, with the number
\* of matches the store reports; or it raises
SearchReplies ==
    {[kind |-> "hits", hits |-> h, total |-> Len(h)] :
        h \in ListsOf(HitPool, MaxHits)}
    \cup {[kind |-> "raise", message |-> m] : m \in StoreErrors}

GetReplies(documents) ==
    {[kind |-> "found", doc |-> d] : d \in documents}
    \cup {[kind |-> "raise", message |-> m] :
            m \in StoreErrors \cup {MissingDocumentError}}

SearchRequest == [query |-> "report", page |-> 1, page_size |-> 10]

GetRequests(users, documents) ==
    {[op |-> "get_document", document_id |-> "doc-1", user |-> u,
      reply |-> r, sink |-> "ok"] :
        u \in users, r \in GetReplies(documents)}

SearchRequests(users) ==
    {[op |-> "search_documents", request |-> SearchRequest, user |-> u,
      reply |-> r, sink |-> "ok"] : u \in users, r \in SearchReplies}

\* what the aggregation of list_categories returns, or raises
CategoryReplies ==
    {[kind |-> "aggregations", buckets |-> b] :
        b \in {<<>>,
               <<[key |-> "Reports", doc_count |-> 2],
                 [key |-> "HR", doc_count |-> 1]>>}}
    \cup {[kind |-> "raise", message |-> m] : m \in StoreErrors}

CategoryRequests(users) ==
    {[op |-> "list_categories", user |-> u, reply |-> r] :
        u \in users, r \in CategoryReplies}

MaskCalls ==
    {[op |-> "apply_cell_level_security", doc |-> d, user |-> u] :
        d \in MaskDocuments, u \in Users}

\* classification and compartments of a sample document
SampleDocument(classification, compartments) ==
    <<<<"classification", classification>>, <<"compartments", compartments>>>>

\* SAMPLE_DOCUMENTS (setup_opensearch.py:120-378), in the order of the list
SAMPLE_DOCUMENTS ==
    <<SampleDocument("UNCLASSIFIED", <<>>),
      SampleDocument("UNCLASSIFIED", <<>>),
      SampleDocument("CONFIDENTIAL", <<>>),
      SampleDocument("CONFIDENTIAL", <<>>),
      SampleDocument("SECRET", <<>>),
      SampleDocument("SECRET", <<>>),
      SampleDocument("SECRET", <<"PROJECT_ALPHA">>),
      SampleDocument("SECRET", <<"PROJECT_ALPHA">>),
      SampleDocument("SECRET", <<"PROJECT_OMEGA">>),
      SampleDocument("SECRET", <<"PROJECT_OMEGA">>),
      SampleDocument("TOP_SECRET", <<>>),
      SampleDocument("TOP_SECRET", <<"OPERATION_DELTA">>),
      SampleDocument("TOP_SECRET", <<"OPERATION_DELTA">>),
      SampleDocument("TOP_SECRET", <<"PROJECT_ALPHA", "OPERATION_DELTA">>),
      SampleDocument("CONFIDENTIAL", <<>>),
      SampleDocument("SECRET", <<"PROJECT_OMEGA">>)>>

\* the principals of the access patterns the setup script prints
\* (setup_opensearch.py:523-531)
SampleUsers ==
    {User("UNCLASSIFIED", <<>>),
     User("CONFIDENTIAL", <<>>),
     User("SECRET", <<>>),
     User("SECRET", <<"PROJECT_ALPHA">>),
     User("SECRET", <<"PROJECT_OMEGA">>),
     User("TOP_SECRET", <<>>),
     User("TOP_SECRET", <<"OPERATION_DELTA">>),
     User("TOP_SECRET",
          <<"PROJECT_ALPHA", "PROJECT_OMEGA", "OPERATION_DELTA">>)}

\* the filter built for a principal of the access patterns
SampleFilterCalls ==
    {[op |-> "build_security_filter", user |-> u,
      candidate |-> Doc("doc-1", SAMPLE_DOCUMENTS[1])] : u \in SampleUsers}

FilterCalls ==
    {[op |-> "build_security_filter", user |-> u, candidate |-> d] :
        u \in Users, d \in Documents}

\* the principals and documents of the running server
ServerUsers ==
    {User("UNCLASSIFIED", <<>>),
     User("secret", <<"PROJECT_ALPHA">>),
     User("TOP_SECRET", <<"PROJECT_ALPHA", "OPERATION_DELTA">>)}

ServerDocuments ==
    {Doc("doc-1", TitleFirst \o <<<<"classification", "UNCLASSIFIED">>,
                                  <<"compartments", <<>>>>>>),
     Doc("doc-1", TitleFirst
            \o <<<<"classification", "SECRET">>,
                 <<"compartments", <<"PROJECT_ALPHA">>>>,
                 <<"field_security",
                   <<<<"content", <<<<"classification", "TOP_SECRET">>,
                        <<"compartments", <<"OPERATION_DELTA">>>>>>>>>>>>>>),
     Doc("doc-1", TitleFirst
            \o <<<<"classification", "TOP_SECRET">>,
                 <<"compartments", <<"OPERATION_DELTA">>>>>>)}

RecordAccessCalls ==
    {[op |-> "log_record_access", db |-> db, user |-> u,
      record_id |-> "rec-1", record_title |-> "Record one",
      was_allowed |-> a,
      denial_reason |-> IF a THEN None ELSE "insufficient_clearance",
      request |-> rq] :
        db \in {"ok", "down"}, u \in ServerUsers, a \in BOOLEAN,
        rq \in {NoRequest,
                [client_host |-> "10.0.0.7", user_agent |-> "curl",
                 path |-> "/api/records/rec-1", method |-> "GET"]}}

\* the request a helper of the recorder is handed, or None
AuditRequests ==
    {NoRequest,
     [client_host |-> "10.0.0.7", user_agent |-> "curl",
      path |-> "/api/records/rec-1", method |-> "GET"]}

\* the principals of the recorder's callers; None when there is no principal
AuditUsers == {User("secret", <<"PROJECT_ALPHA">>), NoUser}

DeniedCell ==
    [field_name |-> "content", classification_required |-> "TOP_SECRET",
     compartments_required |-> <<"OPERATION_DELTA">>,
     was_allowed |-> FALSE, denial_reason |-> "insufficient_clearance"]

AllowedCell ==
    [field_name |-> "title", classification_required |-> "UNCLASSIFIED",
     compartments_required |-> <<>>, was_allowed |-> TRUE]

CellAccessLogs ==
    {<<>>, <<DeniedCell>>, <<AllowedCell>>,
     <<AllowedCell, DeniedCell>>, <<DeniedCell, AllowedCell>>}

\* a batch, with the state of the database at each of its writes
CellAccessBatchCalls ==
    UNION {{[op |-> "log_cell_access_batch", db |-> db, user |-> u,
             record_id |-> "rec-1", record_title |-> "Record one",
             cell_access_log |-> l, request |-> NoRequest] :
                u \in AuditUsers, db \in [1..Len(l) -> {"ok", "down"}]} :
           l \in CellAccessLogs}

CrudCalls ==
    {[op |-> "log_crud_event", db |-> db, user |-> u,
      action |-> a, resource_type |-> "record", resource_id |-> "rec-1",
      record_title |-> "Record one",
      field_name |-> IF a = "UPDATE" THEN "content" ELSE None,
      old_value |-> IF a = "CREATE" THEN None ELSE "old text",
      new_value |-> IF a = "DELETE" THEN None ELSE "new text",
      details |-> d, request |-> rq] :
        db \in {"ok", "down"}, u \in AuditUsers,
        a \in {"CREATE", "UPDATE", "DELETE"},
        d \in {NoDetails, [dict |-> <<>>], [dict |-> CrudDetails]},
        rq \in {[client_host |-> "10.0.0.7", user_agent |-> "curl",
                 path |-> "/api/records/rec-1", method |-> "PUT"]}}

\* the concurrent callers of log_cell_access_batch
Writers == {"w1", "w2"}

\* each writer logs the cells of its own record
WriterCalls(w) ==
    {[op |-> "log_cell_access_batch", user |-> u,
      record_id |-> IF w = "w1" THEN "rec-1" ELSE "rec-2",
      record_title |-> "Record", cell_access_log |-> l,
      request |-> NoRequest] :
        u \in AuditUsers, l \in CellAccessLogs}

\* direct calls of log_event, as for a login
LogEventCalls ==
    {[op |-> "log_event", db |-> db, user |-> u,
      given |-> [action |-> "LOGIN", resource_type |-> "session"]] :
        db \in {"ok", "down"}, u \in AuditUsers}

\* record accesses logged without a principal
AnonymousRecordAccessCalls ==
    {[op |-> "log_record_access", db |-> "ok", user |-> NoUser,
      record_id |-> "rec-1", record_title |-> "Record one",
      was_allowed |-> a,
      denial_reason |-> IF a THEN None ELSE "not_authenticated",
      request |-> NoRequest] : a \in BOOLEAN}

\* the calls of the recorder
AuditCalls ==
    RecordAccessCalls \cup AnonymousRecordAccessCalls
    \cup CellAccessBatchCalls \cup CrudCalls \cup LogEventCalls

ServerRequests ==
    GetRequests(ServerUsers, ServerDocuments)
    \cup SearchRequests(ServerUsers)
    \cup RecordAccessCalls

(***************************************************************************)
(* The state machine                                                       *)
(***************************************************************************)
NoResponse == [status |-> 0]
NoEffects == [steps |-> <<>>, printed |-> <<>>, rows |-> <<>>]

\* a request reaches its handler with the principal of its token
Receive ==
    /\ pc \in {"idle", "responded"}
    /\ Len(stdout) + Len(audit_log) < MaxLog
    /\ \E request \in ServerRequests : input' = request
    /\ pc' = "received"
    /\ output' = NoResponse
    /\ effects' = NoEffects
    /\ UNCHANGED <<stdout, audit_log>>

GetDocument ==
    /\ pc = "received"
    /\ input.op = "get_document"
    /\ LET r == get_document(input.document_id, input.user, input.reply,
                              input.sink)
       IN  /\ output' = r.response
           /\ effects' = [steps |-> r.steps, printed |-> r.printed,
                          rows |-> r.rows, fetched |-> r.fetched]
           /\ stdout' = stdout \o r.printed
           /\ audit_log' = audit_log \o r.rows
    /\ pc' = "responded"
    /\ UNCHANGED input

SearchDocuments ==
    /\ pc = "received"
    /\ input.op = "search_documents"
    /\ LET r == search_documents(input.request, input.user, input.reply,
                                  input.sink)
       IN  /\ output' = r.response
           /\ effects' = [steps |-> r.steps, printed |-> r.printed,
                          rows |-> r.rows, query_filter |-> r.query_filter]
           /\ stdout' = stdout \o r.printed
           /\ audit_log' = audit_log \o r.rows
    /\ pc' = "responded"
    /\ UNCHANGED input

ListCategories ==
    /\ pc = "received"
    /\ input.op = "list_categories"
    /\ LET r == list_categories(input.user, input.reply)
       IN  /\ output' = r.response
           /\ effects' = [steps |-> r.steps, printed |-> r.printed,
                          rows |-> r.rows, query_filter |-> r.query_filter]
           /\ stdout' = stdout \o r.printed
           /\ audit_log' = audit_log \o r.rows
    /\ pc' = "responded"
    /\ UNCHANGED input

ApplyCellLevelSecurity ==
    /\ pc = "received"
    /\ input.op = "apply_cell_level_security"
    /\ output' = apply_cell_level_security(input.doc, input.user)
    /\ effects' = [steps |-> <<"mask">>, printed |-> <<>>, rows |-> <<>>]
    /\ pc' = "responded"
    /\ UNCHANGED <<input, stdout, audit_log>>

\* the caller hands the redacted document of a first call to a second call
\* for the same principal; effects.first keeps what the first call returned
ApplyCellLevelSecurityAgain ==
    /\ pc = "responded"
    /\ input.op = "apply_cell_level_security"
    /\ output' = apply_cell_level_security(output.filtered_doc, input.user)
    /\ effects' = [steps |-> <<"mask", "mask">>, printed |-> <<>>,
                   rows |-> <<>>, first |-> output]
    /\ pc' = "reapplied"
    /\ UNCHANGED <<input, stdout, audit_log>>

BuildSecurityFilter ==
    /\ pc = "received"
    /\ input.op = "build_security_filter"
    /\ output' = [filters |-> build_security_filter(input.user)]
    /\ effects' = [steps |-> <<"build">>, printed |-> <<>>, rows |-> <<>>]
    /\ pc' = "responded"
    /\ UNCHANGED <<input, stdout, audit_log>>

LogRecordAccess ==
    /\ pc = "received"
    /\ input.op = "log_record_access"
    /\ LET r == log_record_access(input.db, input.user, input.record_id,
                                  input.record_title, input.was_allowed,
                                  input.denial_reason, input.request)
       IN  /\ output' = [raised |-> r.raised]
           /\ effects' = [steps |-> <<"audit">>, printed |-> <<>>,
                          rows |-> r.rows]
           /\ audit_log' = audit_log \o r.rows
    /\ pc' = "responded"
    /\ UNCHANGED <<input, stdout>>

LogCellAccessBatch ==
    /\ pc = "received"
    /\ input.op = "log_cell_access_batch"
    /\ LET r == log_cell_access_batch(input.db, input.user, input.record_id,
                                      input.record_title,
                                      input.cell_access_log, input.request)
       IN  /\ output' = [raised |-> r.raised]
           /\ effects' = [steps |-> <<"audit">>, printed |-> <<>>,
                          rows |-> r.rows]
           /\ audit_log' = audit_log \o r.rows
    /\ pc' = "responded"
    /\ UNCHANGED <<input, stdout>>

LogCrudEvent ==
    /\ pc = "received"
    /\ input.op = "log_crud_event"
    /\ LET r == log_crud_event(input.db, input.user, input.action,
                               input.resource_type, input.resource_id,
                               input.record_title, input.field_name,
                               input.old_value, input.new_value,
                               input.details, input.request)
       IN  /\ output' = [raised |-> r.raised]
           /\ effects' = [steps |-> <<"audit">>, printed |-> <<>>,
                          rows |-> r.rows]
           /\ audit_log' = audit_log \o r.rows
    /\ pc' = "responded"
    /\ UNCHANGED <<input, stdout>>

LogEvent ==
    /\ pc = "received"
    /\ input.op = "log_event"
    /\ LET r == log_event(input.db, input.user, input.given)
       IN  /\ output' = [raised |-> r.raised]
           /\ effects' = [steps |-> <<"audit">>, printed |-> <<>>,
                          rows |-> r.rows]
           /\ audit_log' = audit_log \o r.rows
    /\ pc' = "responded"
    /\ UNCHANGED <<input, stdout>>

\* a caller hands a call to the recorder
AuditCall ==
    /\ pc \in {"idle", "responded"}
    /\ Len(audit_log) < MaxLog
    /\ \E call \in AuditCalls : input' = call
    /\ pc' = "received"
    /\ output' = NoResponse
    /\ effects' = NoEffects
    /\ UNCHANGED <<stdout, audit_log>>

\* the running server: requests arrive one after another
Init ==
    /\ pc = "idle"
    /\ input = [op |-> "none"]
    /\ output = NoResponse
    /\ effects = NoEffects
    /\ stdout = <<>>
    /\ audit_log = <<>>

Next ==
    \/ Receive
    \/ GetDocument
    \/ SearchDocuments
    \/ LogRecordAccess

Spec == Init /\ [][Next]_vars

\* one call of a handler or of the filter builder, on every input of the
\* model
CallInit ==
    /\ pc = "received"
    /\ input \in GetRequests(Users, Documents)
                    \cup SearchRequests(Users)
                    \cup CategoryRequests(Users)
                    \cup FilterCalls
                    \cup SampleFilterCalls
    /\ output = NoResponse
    /\ effects = NoEffects
    /\ stdout = <<>>
    /\ audit_log = <<>>

CallNext ==
    \/ GetDocument
    \/ SearchDocuments
    \/ ListCategories
    \/ BuildSecurityFilter

SpecCall == CallInit /\ [][CallNext]_vars

\* one call of the masking engine, on every input of the model
MaskInit ==
    /\ pc = "received"
    /\ input \in MaskCalls
    /\ output = NoResponse
    /\ effects = NoEffects
    /\ stdout = <<>>
    /\ audit_log = <<>>

MaskNext ==
    \/ ApplyCellLevelSecurity
    \/ ApplyCellLevelSecurityAgain

SpecMask == MaskInit /\ [][MaskNext]_vars

\* the requests of the server, with every behaviour of the audit sink
SinkRequests ==
    {[r EXCEPT !.sink = k] :
        r \in GetRequests(ServerUsers, ServerDocuments)
                \cup SearchRequests(ServerUsers),
        k \in Sinks}

\* one call of a handler whose audit line may fail to be written
SinkInit ==
    /\ pc = "received"
    /\ input \in SinkRequests
    /\ output = NoResponse
    /\ effects = NoEffects
    /\ stdout = <<>>
    /\ audit_log = <<>>

SinkNext ==
    \/ GetDocument
    \/ SearchDocuments

SpecSink == SinkInit /\ [][SinkNext]_vars

\* Concurrent writers: each runs the loop of log_cell_access_batch in its own
\* task and session; the tasks interleave at every `await log_event(...)`.
\* pc[w] is the number of the entry writer w logs next (0 once log_event has
\* raised), output[w] what the writer has written so far.
WritersInit ==
    /\ pc = [w \in Writers |-> 1]
    /\ input \in [Writers -> UNION {WriterCalls(w) : w \in Writers}]
    /\ \A w \in Writers : input[w] \in WriterCalls(w)
    /\ output = [w \in Writers |-> [written |-> 0, raised |-> FALSE]]
    /\ effects = NoEffects
    /\ stdout = <<>>
    /\ audit_log = <<>>

\* one iteration of the loop of writer w (audit.py:147-164)
WriterLogEvent(w) ==
    /\ pc[w] \in 1..Len(input[w].cell_access_log)
    /\ \E db \in {"ok", "down"} :
          LET call == input[w]
              r == batch_log_event(db, call.user, call.record_id,
                                   call.record_title,
                                   batch_entry(call.cell_access_log, pc[w]),
                                   call.request)
          IN  /\ audit_log' = audit_log \o r.rows
              /\ pc' = [pc EXCEPT ![w] = IF r.raised THEN 0 ELSE pc[w] + 1]
              /\ output' = [output EXCEPT
                               ![w] = [written |-> output[w].written
                                                     + Len(r.rows),
                                       raised |-> r.raised]]
    /\ UNCHANGED <<input, effects, stdout>>

WritersNext == \E w \in Writers : WriterLogEvent(w)

SpecWriters == WritersInit /\ [][WritersNext]_vars

\* the recorder: any sequence of calls of its functions
AuditNext ==
    \/ AuditCall
    \/ LogEvent
    \/ LogRecordAccess
    \/ LogCellAccessBatch
    \/ LogCrudEvent

SpecAudit == Init /\ [][AuditNext]_vars

(***************************************************************************)
(* The policy as the specification words it: rank is the ordinal of a      *)
(* level name, an unknown or missing level ranks as UNCLASSIFIED, and a    *)
(* principal's clearance is read case-insensitively.                       *)
(***************************************************************************)
Rank(level) ==
    CASE level = "UNCLASSIFIED" -> 0
      [] level = "CONFIDENTIAL" -> 1
      [] level = "SECRET" -> 2
      [] level = "TOP_SECRET" -> 3
      [] OTHER -> 0

PrincipalRank(user) ==
    IF user.clearance_level \in {None, ""}
    THEN 0
    ELSE Rank(Upper(user.clearance_level))

Held(user) ==
    IF user.compartments = NoneList THEN {} ELSE Range(user.compartments)

\* the document-level rule on a stored document
DocumentRule(user, source) ==
    /\ Rank(Get(source, "classification", None)) <= PrincipalRank(user)
    /\ Range(Get(source, "compartments", <<>>)) \subseteq Held(user)

\* the field-level rule on one entry of field_security
FieldRule(user, security) ==
    LET required == Range(Get(security, "compartments", <<>>))
    IN  \/ Rank(Get(security, "classification", None)) > PrincipalRank(user)
        \/ (required # {} /\ ~(required \subseteq Held(user)))

Handled(op) == pc = "responded" /\ input.op = op

FetchedSource == Get(input.reply.doc, "_source", <<>>)

(***************************************************************************)
(* C1: for every principal and every fetched document, get_document        *)
(* answers 200 exactly when the document's classification ranks at or      *)
(* below the principal's clearance and the principal holds every           *)
(* compartment of the document.                                            *)
(***************************************************************************)
C1_GetDocumentAdmitsIffRule ==
    (Handled("get_document") /\ input.reply.kind = "found")
        => ((output.status = 200) <=> DocumentRule(input.user, FetchedSource))

C1_Witness ==
    /\ Handled("get_document")
    /\ input.reply.kind = "found"
    /\ output.status = 200
    /\ Get(FetchedSource, "classification", None) = "SECRET"
    /\ Get(FetchedSource, "compartments", <<>>) = <<"PROJECT_ALPHA">>
    /\ input.user.clearance_level = "SECRET"
    /\ input.user.compartments = <<"PROJECT_ALPHA">>

(***************************************************************************)
(* C2: every document in the result list of search_documents is one the    *)
(* document-level rule admits for the principal, whatever candidates the   *)
(* store returned.                                                         *)
(***************************************************************************)
C2_SearchResultsAdmitted ==
    (Handled("search_documents") /\ output.status = 200)
        => \A i \in DOMAIN output.body.results :
              \E j \in DOMAIN input.reply.hits :
                 /\ Get(input.reply.hits[j], "_id", None)
                        = output.body.results[i].id
                 /\ DocumentRule(input.user,
                                 Get(input.reply.hits[j], "_source", <<>>))

MaskedSource == Get(output.filtered_doc, "_source", <<>>)
InputSource == Get(input.doc, "_source", <<>>)
InputFieldSecurity == Get(InputSource, "field_security", <<>>)


(***************************************************************************)
(* C3: a field listed in field_security and present in the document is     *)
(* masked exactly when its classification outranks the principal's         *)
(* clearance or its non-empty compartments are not all held; a masked      *)
(* field is in the returned list of masked fields.                         *)
(***************************************************************************)
C3_MaskedIffFieldRule ==
    Handled("apply_cell_level_security")
        => \A i \in DOMAIN InputFieldSecurity :
              LET field_name == InputFieldSecurity[i][1]
                  masked == FieldRule(input.user, InputFieldSecurity[i][2])
              IN  Has(InputSource, field_name)
                    => /\ (Get(MaskedSource, field_name, None) = REDACTED)
                            <=> masked
                       /\ (field_name \in Range(output.masked_fields))
                            <=> masked

\* the scenario of the specification: content requires TOP_SECRET and a
\* compartment, the principal is SECRET without compartments
C3_Witness ==
    /\ Handled("apply_cell_level_security")
    /\ input.user.clearance_level = "SECRET"
    /\ input.user.compartments = <<>>
    /\ Has(InputFieldSecurity, "content")
    /\ Get(Get(InputFieldSecurity, "content", <<>>), "classification", None)
            = "TOP_SECRET"
    /\ Get(Get(InputFieldSecurity, "content", <<>>), "compartments", <<>>)
            = <<"PROJECT_ALPHA">>
    /\ Get(MaskedSource, "content", None) = REDACTED
    /\ "content" \in Range(output.masked_fields)

(***************************************************************************)
(* C4: masking only replaces the value of each masked field by the marker  *)
(* "[REDACTED]": the redacted document has the field names of the input,   *)
(* and a field that is not listed, or listed but not masked, keeps its     *)
(* value and is not in the list of masked fields.                          *)
(***************************************************************************)
C4_MaskingOnlyReplacesMaskedValues ==
    Handled("apply_cell_level_security")
        => /\ REDACTED \notin {"", None}
           /\ Keys(MaskedSource) = Keys(InputSource)
           /\ Len(MaskedSource) = Len(InputSource)
           /\ Keys(output.filtered_doc) = Keys(input.doc)
           /\ Get(output.filtered_doc, "_id", None)
                = Get(input.doc, "_id", None)
           /\ \A f \in Keys(InputSource) :
                 IF f \in Range(output.masked_fields)
                 THEN Get(MaskedSource, f, None) = REDACTED
                 ELSE Get(MaskedSource, f, None) = Get(InputSource, f, None)
           /\ \A f \in Keys(InputSource) :
                 (\/ ~Has(InputFieldSecurity, f)
                  \/ ~FieldRule(input.user, Get(InputFieldSecurity, f, <<>>)))
                    => /\ f \notin Range(output.masked_fields)
                       /\ Get(MaskedSource, f, None)
                            = Get(InputSource, f, None)

\* one listed field is masked, another listed field is not
C4_Witness ==
    /\ Handled("apply_cell_level_security")
    /\ output.masked_fields = <<"content">>
    /\ Has(InputFieldSecurity, "author")
    /\ Get(MaskedSource, "author", None) = "Author name"
    /\ Get(MaskedSource, "content", None) = REDACTED
    /\ Get(MaskedSource, "title", None) = "Title text"

(***************************************************************************)
(* C5: every document the document-level check of get_document admits for  *)
(* a principal also matches the filter build_security_filter builds for    *)
(* that principal.                                                         *)
(***************************************************************************)
C5_AdmittedMatchesFilter ==
    (Handled("get_document") /\ input.reply.kind = "found"
        /\ output.status = 200)
        => FilterMatches(build_security_filter(input.user), FetchedSource)

CandidateSource == Get(input.candidate, "_source", <<>>)


DecidedDocuments ==
    IF input.op = "get_document" /\ input.reply.kind = "found"
    THEN {input.document_id}
    ELSE IF input.op = "search_documents" /\ output.status = 200
    THEN {output.body.results[i].id : i \in DOMAIN output.body.results}
    ELSE {}

\* the audit lines and the audit rows of the handled request about one
\* document
LinesAbout(document_id) ==
    {i \in DOMAIN effects.printed :
        /\ "doc_id" \in DOMAIN effects.printed[i]
        /\ effects.printed[i].doc_id = document_id}

RowsAbout(document_id) ==
    {i \in DOMAIN effects.rows : effects.rows[i].rid = document_id}

(***************************************************************************)
(* C7: every document-level decision of a read request produces exactly    *)
(* one audit event about that document: get_document decides on the        *)
(* fetched document, search_documents on every document it returns; the    *)
(* event of a denial carries a reason.                                     *)
(***************************************************************************)
C7_OneAuditEventPerDecision ==
    (pc = "responded" /\ input.op \in {"get_document", "search_documents"})
        => \A d \in DecidedDocuments :
              /\ Cardinality(LinesAbout(d)) + Cardinality(RowsAbout(d)) = 1
              /\ output.status = 403
                    => /\ \A i \in LinesAbout(d) :
                            /\ "reason" \in DOMAIN effects.printed[i]
                            /\ effects.printed[i].reason # <<>>
                       /\ \A i \in RowsAbout(d) :
                            effects.rows[i].denial # None

(***************************************************************************)
(* C8: every request handled by get_document or search_documents makes an  *)
(* audit call before it responds, on the error branches too.               *)
(***************************************************************************)
C8_AuditBeforeEveryResponse ==
    (pc = "responded" /\ input.op \in {"get_document", "search_documents"})
        => \E i, j \in DOMAIN effects.steps :
              /\ effects.steps[i] = "audit"
              /\ effects.steps[j] = "respond"
              /\ i < j

(***************************************************************************)
(* C9: there is one audit sink: every audit event of the read and search   *)
(* paths is written through log_event into the audit_log table.            *)
(***************************************************************************)
C9_SingleAuditSink ==
    /\ stdout = <<>>
    /\ (pc = "responded"
            /\ input.op \in {"get_document", "search_documents"})
        => /\ effects.printed = <<>>
           /\ \A i \in DOMAIN effects.rows :
                 \E j \in DOMAIN audit_log : audit_log[j] = effects.rows[i]

(***************************************************************************)
(* C10: a denied get_document returns neither the document nor the value   *)
(* of any of its data fields.                                              *)
(***************************************************************************)
C10_DenialCarriesNoContent ==
    (Handled("get_document") /\ output.status = 403)
        => /\ DOMAIN output = {"status", "detail"}
           /\ \A f \in DataFields :
                 Has(FetchedSource, f)
                    => \A i \in DOMAIN output.detail :
                          output.detail[i] # Get(FetchedSource, f, None)

C10_Witness ==
    /\ Handled("get_document")
    /\ output.status = 403
    /\ Get(FetchedSource, "classification", None) = "TOP_SECRET"
    /\ Has(FetchedSource, "content")
    /\ input.user.clearance_level = "SECRET"

(***************************************************************************)
(* C11: every 403 of get_document names what the document requires: a      *)
(* clearance denial names the required classification and a compartment    *)
(* denial names the required compartments.                                 *)
(***************************************************************************)
C11_DenialNamesRequirement ==
    (Handled("get_document") /\ output.status = 403)
        => LET required == Get(FetchedSource, "classification", None)
               compartments == Range(Get(FetchedSource, "compartments", <<>>))
           IN  IF Rank(required) > PrincipalRank(input.user)
               THEN required \in Range(output.detail)
               ELSE compartments \subseteq Range(output.detail)

\* the reason of the denial line a denied get_document printed
DenialReason == effects.printed[1].reason

ClearanceFails ==
    Rank(Get(FetchedSource, "classification", None))
        > PrincipalRank(input.user)

MissingSet == Range(Get(FetchedSource, "compartments", <<>>)) \ Held(input.user)

(***************************************************************************)
(* C12: the clearance check comes first: whenever the document's           *)
(* classification outranks the principal's clearance, get_document denies  *)
(* with insufficient_clearance, also when compartments are missing too; a  *)
(* missing_compartments denial happens only when the clearance check       *)
(* passes.                                                                 *)
(***************************************************************************)
C12_ClearanceCheckedFirst ==
    (Handled("get_document") /\ input.reply.kind = "found")
        => /\ ClearanceFails
                => /\ output.status = 403
                   /\ DenialReason = <<"insufficient_clearance">>
                   /\ output = ClearanceDenial(FetchedSource)
           /\ (output.status = 403 /\ ~ClearanceFails)
                => /\ DenialReason[1] = "missing_compartments"
                   /\ output = CompartmentDenial(FetchedSource)

\* a principal that fails both checks
C12_Witness ==
    /\ Handled("get_document")
    /\ input.reply.kind = "found"
    /\ Get(FetchedSource, "classification", None) = "TOP_SECRET"
    /\ Get(FetchedSource, "compartments", <<>>) = <<"OPERATION_DELTA">>
    /\ input.user.clearance_level = "SECRET"
    /\ input.user.compartments = <<"PROJECT_ALPHA">>
    /\ output.status = 403
    /\ DenialReason = <<"insufficient_clearance">>

(***************************************************************************)
(* C13: on a missing_compartments denial the recorded missing set is the   *)
(* document's compartments minus the principal's compartments and is not   *)
(* empty; and once the clearance check has passed, that difference is      *)
(* non-empty exactly when the missing_compartments denial occurs.          *)
(***************************************************************************)
C13_MissingSetIsDifference ==
    (Handled("get_document") /\ input.reply.kind = "found")
        => LET denied == /\ output.status = 403
                         /\ DenialReason[1] = "missing_compartments"
           IN  /\ denied => /\ DenialReason[2] = MissingSet
                            /\ MissingSet # {}
               /\ ~ClearanceFails => (denied <=> MissingSet # {})

\* the principal holds one of the two compartments the document requires
C13_Witness ==
    /\ Handled("get_document")
    /\ input.reply.kind = "found"
    /\ Get(FetchedSource, "compartments", <<>>)
            = <<"PROJECT_ALPHA", "OPERATION_DELTA">>
    /\ input.user.compartments = <<"PROJECT_ALPHA">>
    /\ output.status = 403
    /\ DenialReason = <<"missing_compartments", {"OPERATION_DELTA"}>>

(***************************************************************************)
(* C14: an allowed single read runs evaluate, mask, audit, respond in      *)
(* that order; the response carries the masked document, and the audit     *)
(* event of the read carries the list of masked fields the response        *)
(* returns.                                                                *)
(***************************************************************************)
C14_AllowAuditCarriesMaskedFields ==
    (Handled("get_document") /\ output.status = 200)
        => /\ effects.steps
                = <<"store.get", "evaluate", "mask", "audit", "respond">>
           /\ output.body.document
                = Get(apply_cell_level_security(input.reply.doc,
                                                input.user).filtered_doc,
                      "_source", <<>>)
           /\ \E i \in DOMAIN effects.printed :
                 /\ "masked_fields" \in DOMAIN effects.printed[i]
                 /\ effects.printed[i].masked_fields
                        = output.body.masked_fields

C16_AuditFailClosed ==
    ((Handled("get_document") \/ Handled("search_documents"))
        /\ output.status = 200)
        => /\ effects.printed # <<>>
           /\ \A i \in DOMAIN effects.printed :
                 effects.printed[i] \in Range(stdout)

\* the store has no document of the requested id
DocumentMissing ==
    /\ input.op = "get_document"
    /\ input.reply.kind = "raise"
    /\ input.reply.message \in {MissingDocumentError, MissingIndexError}

(***************************************************************************)
(* C17: when the store call of get_document, search_documents or           *)
(* list_categories raises, the response is 404 for a missing document and  *)
(* 503 for any other failure, never 403 and never with content; a 403 is   *)
(* only the outcome of the clearance or compartment decision on a fetched  *)
(* document.                                                               *)
(***************************************************************************)
C17_StoreFailureIsNotDenial ==
    (Handled("get_document") \/ Handled("search_documents")
        \/ Handled("list_categories"))
        => /\ input.reply.kind = "raise"
                => /\ output.status = IF DocumentMissing THEN 404 ELSE 503
                   /\ "body" \notin DOMAIN output
           /\ output.status = 403
                => /\ input.op = "get_document"
                   /\ input.reply.kind = "found"
                   /\ ~DocumentRule(input.user, FetchedSource)

(***************************************************************************)
(* C18: log_cell_access_batch records the entries of a batch in their      *)
(* original order, and all of them or none: when the write of any entry    *)
(* fails, no entry of that batch is in the audit log.                      *)
(***************************************************************************)
C18_BatchAllOrNone ==
    Handled("log_cell_access_batch")
        => LET batch == input.cell_access_log
               n == Len(effects.rows)
           IN  /\ SubSeq(audit_log, Len(audit_log) - n + 1, Len(audit_log))
                    = effects.rows
               /\ \A i \in 1..n :
                     effects.rows[i].fname = batch[i].field_name
               /\ n = IF output.raised THEN 0 ELSE Len(batch)

(***************************************************************************)
(* C19: the audit log is append-only: across every call of log_event,      *)
(* log_record_access, log_cell_access_batch and log_crud_event the events  *)
(* recorded before are still there, unchanged and in place, and each       *)
(* successful log_event adds exactly one event (a failed one adds none).   *)
(***************************************************************************)
C19_AuditLogAppendOnly ==
    [][LET added == Len(audit_log') - Len(audit_log)
       IN  /\ added >= 0
           /\ SubSeq(audit_log', 1, Len(audit_log)) = audit_log
           /\ (pc = "received" /\ pc' = "responded")
                => IF input.op = "log_cell_access_batch"
                   THEN /\ added <= Len(input.cell_access_log)
                        /\ ~output'.raised
                             => added = Len(input.cell_access_log)
                   ELSE added = IF output'.raised THEN 0 ELSE 1]_vars

\* a second event recorded after a first one
C19_Witness ==
    /\ Handled("log_crud_event")
    /\ ~output.raised
    /\ Len(audit_log) = 2
    /\ audit_log[1].action = "READ_RECORD"
    /\ audit_log[2].action = "UPDATE"

\* the place of a field among the fields of the input document
FieldPosition(field_name) ==
    CHOOSE k \in DOMAIN InputSource : InputSource[k][1] = field_name

(***************************************************************************)
(* C20: the list of masked fields follows the field order of the input     *)
(* document, not the order of field_security, and names no field twice.    *)
(***************************************************************************)
C20_MaskedFieldsInDocumentOrder ==
    Handled("apply_cell_level_security")
        => \A i, j \in DOMAIN output.masked_fields :
              i < j => FieldPosition(output.masked_fields[i])
                          < FieldPosition(output.masked_fields[j])

C22_MaskingLeavesInputUnchanged ==
    Handled("apply_cell_level_security") => output.doc_after = input.doc

\* the level a clearance string stands for, read case-insensitively; a
\* missing or unrecognized string stands for UNCLASSIFIED
ResolvedLevel(clearance_level) ==
    CASE clearance_level \in {"CONFIDENTIAL", "confidential"} -> 1
      [] clearance_level \in {"SECRET", "secret"} -> 2
      [] clearance_level \in {"TOP_SECRET", "top_secret"} -> 3
      [] OTHER -> 0

(***************************************************************************)
(* C23: build_security_filter, get_document and apply_cell_level_security  *)
(* all read the principal's clearance case-insensitively as one of the     *)
(* four levels, and a missing or unrecognized clearance as UNCLASSIFIED:   *)
(* the allowed classifications of the filter, the clearance decision of    *)
(* get_document and the masking of a granted document are those of that    *)
(* level.                                                                  *)
(***************************************************************************)
C23_ClearanceResolvedAlike ==
    LET level == ResolvedLevel(input.user.clearance_level)
    IN  /\ Handled("build_security_filter")
            => output.filters[1].values
                  = SelectSeq(LevelNames, LAMBDA name : Rank(name) <= level)
        /\ (Handled("get_document") /\ input.reply.kind = "found")
            => (output = ClearanceDenial(FetchedSource))
                  <=> Rank(Get(FetchedSource, "classification", None)) > level
        /\ (Handled("get_document") /\ output.status = 200)
            => LET field_security == Get(FetchedSource, "field_security", <<>>)
               IN  \A i \in DOMAIN field_security :
                      LET security == field_security[i][2]
                          required ==
                              Range(Get(security, "compartments", <<>>))
                      IN  Has(FetchedSource, field_security[i][1])
                            => ((field_security[i][1]
                                    \in Range(output.body.masked_fields))
                                <=> \/ Rank(Get(security, "classification",
                                                None)) > level
                                    \/ /\ required # {}
                                       /\ ~(required
                                              \subseteq Held(input.user)))

\* a clearance written in lower case reads a SECRET document and its SECRET
\* content
C23_Witness ==
    /\ Handled("get_document")
    /\ input.user.clearance_level = "secret"
    /\ input.user.compartments = <<"PROJECT_ALPHA">>
    /\ output.status = 200
    /\ Get(FetchedSource, "classification", None) = "SECRET"
    /\ Has(Get(FetchedSource, "field_security", <<>>), "content")
    /\ output.body.masked_fields = <<>>

(***************************************************************************)
(* C24: the four levels are totally ordered, UNCLASSIFIED < CONFIDENTIAL   *)
(* < SECRET < TOP_SECRET: any two levels are comparable, the order is      *)
(* antisymmetric and transitive, and the classifications the filter        *)
(* allows for a clearance are exactly the levels ranked at or below it.    *)
(***************************************************************************)
C24_LevelsTotallyOrdered ==
    Handled("build_security_filter")
        => LET levels == Range(LevelNames)
               rank(a) == CLEARANCE_MAP_get(a)
               allowed == output.filters[1].values
           IN  /\ \A a, b \in levels : rank(a) <= rank(b) \/ rank(b) <= rank(a)
               /\ \A a, b \in levels :
                     (rank(a) <= rank(b) /\ rank(b) <= rank(a)) => a = b
               /\ \A a, b, c \in levels :
                     (rank(a) <= rank(b) /\ rank(b) <= rank(c))
                        => rank(a) <= rank(c)
               /\ \A i, j \in DOMAIN LevelNames :
                     i < j => rank(LevelNames[i]) < rank(LevelNames[j])
               /\ Range(allowed)
                    = {a \in levels :
                          rank(a) <= user_clearance_of(input.user)}
               /\ \A i, j \in DOMAIN allowed :
                     i < j => rank(allowed[i]) < rank(allowed[j])

\* a SECRET clearance is allowed three of the four levels
C24_Witness ==
    /\ Handled("build_security_filter")
    /\ input.user.clearance_level = "SECRET"
    /\ output.filters[1].values = <<"UNCLASSIFIED", "CONFIDENTIAL", "SECRET">>

\* the number of documents the setup script announces for a principal
AnnouncedCount(user) ==
    CASE user = User("UNCLASSIFIED", <<>>) -> 2
      [] user = User("CONFIDENTIAL", <<>>) -> 4
      [] user = User("SECRET", <<>>) -> 6
      [] user = User("SECRET", <<"PROJECT_ALPHA">>) -> 8
      [] user = User("SECRET", <<"PROJECT_OMEGA">>) -> 8
      [] user = User("TOP_SECRET", <<>>) -> 7
      [] user = User("TOP_SECRET", <<"OPERATION_DELTA">>) -> 9
      [] user = User("TOP_SECRET",
                     <<"PROJECT_ALPHA", "PROJECT_OMEGA", "OPERATION_DELTA">>)
            -> 16

\* the sample documents the filter of the handled call matches
VisibleSampleDocuments ==
    {i \in DOMAIN SAMPLE_DOCUMENTS :
        FilterMatches(output.filters, SAMPLE_DOCUMENTS[i])}

(***************************************************************************)
(* C25: of the 16 sample documents the document-level rule shows 2 to an   *)
(* UNCLASSIFIED principal, 4 to CONFIDENTIAL, 6 to SECRET without          *)
(* compartments, 8 to SECRET with PROJECT_ALPHA, 8 to SECRET with          *)
(* PROJECT_OMEGA, 7 to TOP_SECRET without compartments, 9 to TOP_SECRET    *)
(* with OPERATION_DELTA and all 16 to TOP_SECRET with every compartment.   *)
(***************************************************************************)
C25_SampleDocumentCounts ==
    (Handled("build_security_filter") /\ input.user \in SampleUsers)
        => /\ Cardinality(VisibleSampleDocuments) = AnnouncedCount(input.user)
           /\ VisibleSampleDocuments
                = {i \in DOMAIN SAMPLE_DOCUMENTS :
                      DocumentRule(input.user, SAMPLE_DOCUMENTS[i])}

\* the masked fields the field-level rule gives for this request's principal
\* and document, in the order of field_security
RuleMaskedFields ==
    LET field_security == Get(FetchedSource, "field_security", <<>>)
    IN  SelectSeq(KeySeq(field_security),
                  LAMBDA f : /\ Has(FetchedSource, f)
                             /\ FieldRule(input.user,
                                          Get(field_security, f, <<>>)))

(***************************************************************************)
(* C26: decisions are never stale: on the running server, whatever         *)
(* requests were handled before and with whatever clearance and            *)
(* compartments the principal had then, the decision of get_document and   *)
(* the masking of the granted document are those the rules give for the    *)
(* principal attributes and the document of the present request.           *)
(***************************************************************************)
C26_DecisionsNeverStale ==
    (Handled("get_document") /\ input.reply.kind = "found")
        => /\ (output.status = 200)
                <=> DocumentRule(input.user, FetchedSource)
           /\ (output.status # 200) => output.status = 403
           /\ (output.status = 200)
                => /\ output.body.masked_fields = RuleMaskedFields
                   /\ KeySeq(output.body.document) = KeySeq(FetchedSource)
                   /\ \A i \in DOMAIN FetchedSource :
                         output.body.document[i][2]
                            = IF FetchedSource[i][1] \in Range(RuleMaskedFields)
                              THEN REDACTED
                              ELSE FetchedSource[i][2]

\* the principal read a document with TOP_SECRET clearance and, after the
\* clearance was lowered, is denied
C26_Witness ==
    /\ Handled("get_document")
    /\ Len(stdout) = 2
    /\ stdout[1].tag = "[AUDIT] Document access"
    /\ stdout[1].user = "alice"
    /\ stdout[1].clearance = "TOP_SECRET"
    /\ stdout[2].tag = "[AUDIT] Access DENIED"
    /\ stdout[2].user = "alice"
    /\ stdout[2].clearance = "UNCLASSIFIED"
    /\ output.status = 403
    /\ Get(FetchedSource, "classification", None) = "TOP_SECRET"

\* the field names of the events of writer w, in the order of the log
LoggedFields(w) ==
    LET mine == SelectSeq(audit_log,
                          LAMBDA row : row.rid = input[w].record_id)
    IN  [i \in DOMAIN mine |-> mine[i].fname]

(***************************************************************************)
(* C27: with concurrent writers, the events of each writer are in the      *)
(* audit log in the order the writer issued them: at every moment the      *)
(* events of one log_cell_access_batch call are the entries the call has   *)
(* written so far, in the order of its list, however the writers           *)
(* interleave.                                                             *)
(***************************************************************************)
C27_PerWriterOrder ==
    \A w \in Writers :
        /\ Len(LoggedFields(w)) = output[w].written
        /\ \A i \in DOMAIN LoggedFields(w) :
              LoggedFields(w)[i] = input[w].cell_access_log[i].field_name

\* the two writers' events alternate in the log
C27_Witness ==
    /\ Len(audit_log) = 4
    /\ audit_log[1].rid = "rec-1"
    /\ audit_log[2].rid = "rec-2"
    /\ audit_log[3].rid = "rec-1"
    /\ audit_log[4].rid = "rec-2"
    /\ audit_log[1].fname = "content"
    /\ audit_log[3].fname = "title"

\* the rank of a level string under one reading for principals, documents
\* and fields alike: case-insensitive, UNCLASSIFIED when unrecognized
SingleRank(level) == ResolvedLevel(level)

(***************************************************************************)
(* C28: a level string resolves to the same level whether it is a          *)
(* principal's clearance, a document's classification or a field's         *)
(* classification: get_document decides, and masks a granted document, as  *)
(* if every classification were read the way the principal's clearance is  *)
(* read, so a classification in another letter case is not ranked lower.   *)
(***************************************************************************)
C28_SingleLevelResolution ==
    (Handled("get_document") /\ input.reply.kind = "found")
        => LET level == SingleRank(input.user.clearance_level)
               field_security == Get(FetchedSource, "field_security", <<>>)
           IN  /\ (output = ClearanceDenial(FetchedSource))
                     <=> SingleRank(Get(FetchedSource, "classification",
                                        None)) > level
               /\ output.status = 200
                     => \A i \in DOMAIN field_security :
                           (/\ Has(FetchedSource, field_security[i][1])
                            /\ SingleRank(Get(field_security[i][2],
                                              "classification", None))
                                  > level)
                              => field_security[i][1]
                                    \in Range(output.body.masked_fields)

(***************************************************************************)
(* C29: a log_crud_event call that returns has written exactly one audit   *)
(* event; the event carries the action, the resource and the old and new   *)
(* values of the call unchanged, its allowed flag is true and it has no    *)
(* denial reason.                                                          *)
(***************************************************************************)
C29_CrudEventRecorded ==
    (Handled("log_crud_event") /\ ~output.raised)
        => /\ Len(effects.rows) = 1
           /\ audit_log # <<>>
           /\ audit_log[Len(audit_log)] = effects.rows[1]
           /\ LET event == effects.rows[1]
              IN  /\ event.action = input.action
                  /\ event.rtype = input.resource_type
                  /\ event.rid = input.resource_id
                  /\ event.rtitle = input.record_title
                  /\ event.fname = input.field_name
                  /\ event.old_val = input.old_value
                  /\ event.new_val = input.new_value
                  /\ event.allowed = TRUE
                  /\ event.denial = None

C29_Witness ==
    /\ Handled("log_crud_event")
    /\ ~output.raised
    /\ input.action = "UPDATE"
    /\ Len(effects.rows) = 1
    /\ effects.rows[1].old_val = "old text"
    /\ effects.rows[1].new_val = "new text"
    /\ effects.rows[1].allowed

\* the allowed flags a call of log_record_access or log_cell_access_batch
\* was given, one per event it may write
GivenFlags ==
    IF input.op = "log_record_access"
    THEN <<input.was_allowed>>
    ELSE [i \in DOMAIN input.cell_access_log |->
             input.cell_access_log[i].was_allowed]

(***************************************************************************)
(* C30: in every event written by log_record_access or                     *)
(* log_cell_access_batch the action agrees with the allowed flag of the    *)
(* call: READ_RECORD (READ_CELL) exactly when the flag is true,            *)
(* ACCESS_DENIED (CELL_ACCESS_DENIED) exactly when it is false; and the    *)
(* event records the principal's username, organization and clearance, or  *)
(* "anonymous", "Unknown" and no clearance when there is no principal.     *)
(***************************************************************************)
C30_ActionAgreesWithAllowedFlag ==
    (Handled("log_record_access") \/ Handled("log_cell_access_batch"))
        => \A i \in DOMAIN effects.rows :
              LET event == effects.rows[i]
                  record == input.op = "log_record_access"
              IN  /\ event.allowed = GivenFlags[i]
                  /\ event.action
                        = IF event.allowed
                          THEN (IF record THEN "READ_RECORD" ELSE "READ_CELL")
                          ELSE (IF record THEN "ACCESS_DENIED"
                                ELSE "CELL_ACCESS_DENIED")
                  /\ IF "none" \in DOMAIN input.user
                     THEN /\ event.uname = "anonymous"
                          /\ event.org = "Unknown"
                          /\ event.clearance = None
                     ELSE /\ event.uname = input.user.username
                          /\ event.org = input.user.organization
                          /\ event.clearance = input.user.clearance_level

\* a denied record access without a principal
C30_Witness ==
    /\ Handled("log_record_access")
    /\ "none" \in DOMAIN input.user
    /\ Len(effects.rows) = 1
    /\ effects.rows[1].action = "ACCESS_DENIED"
    /\ effects.rows[1].allowed = FALSE
    /\ effects.rows[1].uname = "anonymous"

=============================================================================
